---- MODULE Spec2Model ----
(***************************************************************************)
(* Model of tap_marketo/sync.py: the orchestrator sync() and its four      *)
(* strategies (sync_activity_types, sync_activities, sync_paginated,       *)
(* sync_programs), the Singer State they mutate in memory and the State    *)
(* snapshots they emit with singer.write_state.                            *)
(*                                                                         *)
(* Timestamps are integers.  Every timestamp the code compares is the      *)
(* output of pendulum's isoformat() in UTC, and on such strings Python's   *)
(* string order is the chronological order, so "<" on integers is the      *)
(* comparison the code makes.  One unit is one day.                        *)
(* Python's None is Null for bookmark values and NoStream for the          *)
(* currently_syncing field; both are falsy, as None is.                    *)
(***************************************************************************)
EXTENDS Integers, Sequences, FiniteSets, TLC

\* ---------------------------------------------------------------- bounds
StartTime == 66        \* the clock when the first run starts
MaxTicks == 1          \* how far the clock advances
MaxRows == 1           \* rows per page of a listing endpoint
MaxLines == 2          \* rows per export
MaxPages == 2          \* pages a listing endpoint serves before it ends
MaxToken == 2          \* distinct opaque paging tokens
MaxExportId == 2       \* distinct export job ids
MaxRuns == 2           \* runs of the tap (the first and the resumed ones)

\* ------------------------------------------------------ program constants
Null == 0
NoStream == ""
MAX_EXPORT_DAYS == 30
maxReturn == 200

\* --------------------------------------------------------------- streams
ActivityStreams == {"activities_1"}
PaginatedStreams == {"campaigns", "lists"}
Streams == {"activity_types", "programs", "leads"} \cup ActivityStreams \cup PaginatedStreams

Entry(name, sel) == [stream |-> name, selected |-> sel]

\* catalogs the tap is run with: stream order and selection flags
Catalogs ==
  { << Entry("activity_types", TRUE), Entry("campaigns", TRUE), Entry("lists", TRUE) >>,
    << Entry("activities_1", TRUE), Entry("lists", FALSE), Entry("programs", TRUE) >>,
    << Entry("campaigns", TRUE), Entry("leads", TRUE), Entry("programs", TRUE) >> }

Tokens == 1..MaxToken
ExportIds == 1..MaxExportId

Min(a, b) == IF a <= b THEN a ELSE b

\* ------------------------------------------------- singer.bookmarks store
\* write_bookmark and set_currently_syncing update the State object they are
\* given and return it, so sync() and the strategy it calls see each other's
\* writes whether or not a return value is kept (lines 118, 161, 173 drop it):
\* the State is the single variable state.
get_bookmark(st, s, key) == st.bookmarks[s][key]
write_bookmark(st, s, key, val) == [st EXCEPT !.bookmarks[s][key] = val]
get_currently_syncing(st) == st.currently_syncing
set_currently_syncing(st, s) == [st EXCEPT !.currently_syncing = s]

NoBookmarks ==
  [replication_key |-> Null, export_id |-> Null, export_end |-> Null, next_page_token |-> Null]

VARIABLES
  catalog,          \* catalog["streams"]
  state,            \* the State object sync() and the strategies mutate
  persisted,        \* the last snapshot emitted by singer.write_state
  now,              \* pendulum.utcnow()
  pc,               \* position of the single thread
  error,            \* the exception that ended the run, "" if none
  idx,              \* position of the for loop of sync() in the catalog
  starting_stream,  \* local of sync()
  loc,              \* locals of the running strategy
  lines,            \* the rows stream_export yields after the header line
  calls,            \* collaborator calls made for the current stream, in order
  emitted,          \* records written by singer.write_record for the current stream
  dispatched,       \* streams handed to a strategy in this run, in order
  run_state,        \* the State this run was started with
  window,           \* bookmarks of the export window being handled
  runs              \* number of runs started

vars == << catalog, state, persisted, now, pc, error, idx, starting_stream, loc,
           lines, calls, emitted, dispatched, run_state, window, runs >>

\* the singer.write_state calls left out: the last snapshot stays
write_state_dropped(st) == persisted

\* singer.write_state(state): the State given becomes the last emitted
\* snapshot (lines 129, 220, 264, 270, 312, 333)
write_state(st) == st

NoLocals ==
  [start_date |-> Null, start_pen |-> Null, job_started |-> Null, export_id |-> Null,
   end_date |-> Null, offset |-> 0, nextPageToken |-> Null, max_bookmark |-> Null,
   record_count |-> 0, pages |-> 0, handled |-> 0, warnings |-> FALSE, result |-> 0]

NoWindow ==
  [cursor |-> Null, export_id |-> Null, export_end |-> Null, record_count |-> 0,
   drained |-> FALSE]

StreamName(i) == catalog[i].stream
cur == StreamName(idx)
replication_key == "replication_key"

\* ------------------------------------------------------------------ Init
\* States a State file written by an earlier run can hold: an export or a
\* paging token is bookmarked only for the stream that was being synced, the
\* export window ends after the cursor, at most MAX_EXPORT_DAYS later and not
\* in the future; no cursor is in the future.
InCatalog(cat, s) == \E i \in 1..Len(cat) : cat[i].stream = s /\ cat[i].selected

ExportWindows(c, resuming) ==
  {[id |-> Null, end |-> Null]} \cup
  { [id |-> i, end |-> d] :
      i \in (IF resuming THEN ExportIds ELSE {}),
      d \in { x \in {c + 1, Min(c + MAX_EXPORT_DAYS, StartTime)} : x > c /\ x <= StartTime } }

ActivityBookmarks(resuming) ==
  UNION { { [replication_key |-> c, export_id |-> e.id, export_end |-> e.end,
             next_page_token |-> Null] : e \in ExportWindows(c, resuming) } :
          c \in {StartTime - 65, StartTime - 1, StartTime} }

PaginatedBookmarks(resuming) ==
  { [replication_key |-> StartTime - 1, export_id |-> Null, export_end |-> Null,
     next_page_token |-> t] :
      t \in {Null} \cup (IF resuming THEN Tokens ELSE {}) }

ProgramsBookmarks ==
  { [replication_key |-> c, export_id |-> Null, export_end |-> Null, next_page_token |-> Null] :
      c \in {StartTime - 1, StartTime} }

InitBookmarks(cat, s, syncing) ==
  IF ~InCatalog(cat, s) THEN {NoBookmarks}
  ELSE IF s \in ActivityStreams THEN ActivityBookmarks(syncing = s)
  ELSE IF s \in PaginatedStreams THEN PaginatedBookmarks(syncing = s)
  ELSE IF s = "programs" THEN ProgramsBookmarks
  ELSE {NoBookmarks}

InitStates(cat) ==
  UNION { { [currently_syncing |-> syncing,
             bookmarks |-> [s \in Streams |->
                              IF s = "activities_1" THEN a
                              ELSE IF s = "campaigns" THEN c
                              ELSE IF s = "lists" THEN l
                              ELSE IF s = "programs" THEN p
                              ELSE NoBookmarks]] :
              a \in InitBookmarks(cat, "activities_1", syncing),
              c \in InitBookmarks(cat, "campaigns", syncing),
              l \in InitBookmarks(cat, "lists", syncing),
              p \in InitBookmarks(cat, "programs", syncing) } :
          syncing \in {NoStream} \cup Streams }

Init ==
  /\ catalog \in Catalogs
  /\ state \in InitStates(catalog)
  /\ persisted = state
  /\ run_state = state
  /\ now = StartTime
  /\ pc = "start"
  /\ error = ""
  /\ idx = 1
  /\ starting_stream = NoStream
  /\ loc = NoLocals
  /\ lines = << >>
  /\ calls = << >>
  /\ emitted = {}
  /\ dispatched = << >>
  /\ window = NoWindow
  /\ runs = 1

Call(op, s, arg) == [op |-> op, stream |-> s, arg |-> arg]
Rec(s, v) == [stream |-> s, value |-> v]

\* ------------------------------------------------------------ sync()
\* lines 289-293
sync ==
  /\ pc = "start"
  /\ starting_stream' = get_currently_syncing(state)
  /\ idx' = 1
  /\ pc' = "for"
  /\ UNCHANGED << catalog, state, persisted, now, error, loc, lines, calls, emitted,
                  dispatched, run_state, window, runs >>

\* lines 297-299
SkipUnselected ==
  /\ pc = "for" /\ idx <= Len(catalog)
  /\ ~catalog[idx].selected
  /\ idx' = idx + 1
  /\ UNCHANGED << catalog, state, persisted, now, pc, error, starting_stream, loc, lines,
                  calls, emitted, dispatched, run_state, window, runs >>

\* line 302 with the test left out
already_synced_never(starting, name) == FALSE

\* line 302 with == for !=
already_synced_inverted(starting, name) == starting # NoStream /\ name = starting

\* line 302
already_synced(starting, name) == starting # NoStream /\ name # starting

\* lines 302-304
SkipAlreadySynced ==
  /\ pc = "for" /\ idx <= Len(catalog)
  /\ catalog[idx].selected
  /\ already_synced(starting_stream, cur)
  /\ idx' = idx + 1
  /\ UNCHANGED << catalog, state, persisted, now, pc, error, starting_stream, loc, lines,
                  calls, emitted, dispatched, run_state, window, runs >>

\* lines 315-324: the strategy a stream name selects
Strategy(name) ==
  IF name = "activity_types" THEN "sync_activity_types"
  ELSE IF name \in ActivityStreams THEN "sync_activities"
  ELSE IF name \in {"campaigns", "lists"} THEN "sync_paginated"
  ELSE IF name = "programs" THEN "sync_programs"
  ELSE "raise"

\* lines 310-312 without line 311
start_marker_dropped(st, name) == st

\* line 311: the stream becomes the State's currently_syncing
start_marker(st, name) == set_currently_syncing(st, name)

\* lines 306-324: mark the stream as currently syncing, persist, dispatch
StartStream ==
  /\ pc = "for" /\ idx <= Len(catalog)
  /\ catalog[idx].selected
  /\ ~already_synced(starting_stream, cur)
  /\ starting_stream' = NoStream
  /\ state' = start_marker(state, cur)
  /\ persisted' = write_state(state')
  /\ IF Strategy(cur) = "raise"
       THEN /\ pc' = "failed"
            /\ error' = "NotImplemented"
            /\ UNCHANGED dispatched
       ELSE /\ pc' = Strategy(cur)
            /\ dispatched' = Append(dispatched, cur)
            /\ UNCHANGED error
  /\ loc' = NoLocals
  /\ window' = NoWindow
  /\ lines' = << >>
  /\ calls' = << >>
  /\ emitted' = {}
  /\ UNCHANGED << catalog, now, idx, run_state, runs >>

\* lines 326-334: the strategy returned
FinishStream ==
  /\ pc = "finish"
  /\ state' = set_currently_syncing(state, NoStream)
  /\ persisted' = write_state(state')
  /\ idx' = idx + 1
  /\ pc' = "for"
  /\ UNCHANGED << catalog, now, error, starting_stream, loc, lines, calls, emitted,
                  dispatched, run_state, window, runs >>

\* lines 336-341: the for loop is exhausted
SyncReturn ==
  /\ pc = "for" /\ idx > Len(catalog)
  /\ pc' = "done"
  /\ UNCHANGED << catalog, state, persisted, now, error, idx, starting_stream, loc, lines,
                  calls, emitted, dispatched, run_state, window, runs >>

\* ------------------------------------------------- sync_activity_types()
\* lines 274-285
sync_activity_types ==
  /\ pc = "sync_activity_types"
  /\ \E n \in 0..MaxRows :
       /\ loc' = [loc EXCEPT !.record_count = n]
       /\ emitted' = IF n > 0 THEN emitted \cup {Rec(cur, Null)} ELSE emitted
  /\ calls' = Append(calls, Call("request", cur, Null))
  /\ pc' = "finish"
  /\ UNCHANGED << catalog, state, persisted, now, error, idx, starting_stream, lines,
                  dispatched, run_state, window, runs >>

\* ------------------------------------------------------------- the rows
\* values of the replication key the rows served around a cursor carry
RowValues(c) == { v \in {c - 1, c, c + 1} : v > Null }

\* at most max rows, with values around the cursor
RowSeqs(c, max) == UNION { [1..n -> RowValues(c)] : n \in 0..max }

Accepted(rows, start_date) == { i \in 1..Len(rows) : rows[i] >= start_date }

\* ------------------------------------------------------ sync_activities()
\* lines 123-130 without the test of line 126
update_activity_state_unconditional(st, s, bookmark, export_id, export_end) ==
  LET s1 == write_bookmark(st, s, "export_id", export_id)
      s2 == write_bookmark(s1, s, "export_end", export_end)
  IN  write_bookmark(s2, s, replication_key, bookmark)

\* lines 123-130 without the write of line 125
update_activity_state_keep_end(st, s, bookmark, export_id, export_end) ==
  LET s1 == write_bookmark(st, s, "export_id", export_id)
  IN  IF bookmark # Null THEN write_bookmark(s1, s, replication_key, bookmark) ELSE s1

\* lines 123-130 without the write of line 124
update_activity_state_keep_id(st, s, bookmark, export_id, export_end) ==
  LET s2 == write_bookmark(st, s, "export_end", export_end)
  IN  IF bookmark # Null THEN write_bookmark(s2, s, replication_key, bookmark) ELSE s2

\* lines 123-130: the State update_activity_state leaves; the caller's action
\* emits it (line 129)
update_activity_state(st, s, bookmark, export_id, export_end) ==
  LET s1 == write_bookmark(st, s, "export_id", export_id)
      s2 == write_bookmark(s1, s, "export_end", export_end)
  IN  IF bookmark # Null THEN write_bookmark(s2, s, replication_key, bookmark) ELSE s2

\* lines 94-120 with line 95 reading the export_end bookmark
get_or_create_export_wrong_key(st, s) ==
  LET export_id == get_bookmark(st, s, "export_end")
  IN  IF export_id # Null
        THEN [raised |-> "", export_id |-> export_id]
        ELSE [raised |-> "NameError", export_id |-> Null]

\* lines 94-120: the bookmarked export id is returned; without one, line 107
\* reads start_pen, a name no scope of get_or_create_export binds, and Python
\* raises NameError before create_export (line 117) is reached
get_or_create_export(st, s) ==
  LET export_id == get_bookmark(st, s, "export_id")
  IN  IF export_id # Null
        THEN [raised |-> "", export_id |-> export_id]
        ELSE [raised |-> "NameError", export_id |-> Null]

\* lines 139-144 with <= for < at line 140
handle_activity_line_strict(st, s, value) ==
  IF value <= get_bookmark(st, s, replication_key) THEN 0 ELSE 1

\* lines 139-144 without the test of line 140
handle_activity_line_unfiltered(st, s, value) == 1

\* lines 139-144: 0 when the row is older than the cursor bookmark, else the
\* record is written and 1 returned
handle_activity_line(st, s, value) ==
  IF value < get_bookmark(st, s, replication_key) THEN 0 ELSE 1

\* line 153 with the test always true
ActivitiesLoop_unbounded(start_pen, job_started) == "get_or_create_export"

\* line 153 with <= for <
ActivitiesLoop_inclusive(start_pen, job_started) ==
  IF start_pen <= job_started THEN "get_or_create_export" ELSE "finish"

\* line 153: the while test
ActivitiesLoop(start_pen, job_started) ==
  IF start_pen < job_started THEN "get_or_create_export" ELSE "finish"

\* lines 148-153
sync_activities ==
  /\ pc = "sync_activities"
  /\ LET start_date == get_bookmark(state, cur, replication_key)
     IN  /\ loc' = [loc EXCEPT !.start_date = start_date, !.start_pen = start_date,
                               !.job_started = now, !.record_count = 0]
         /\ pc' = ActivitiesLoop(start_date, now)
  /\ UNCHANGED << catalog, state, persisted, now, error, idx, starting_stream, lines, calls,
                  emitted, dispatched, run_state, window, runs >>

\* line 154
GetOrCreateExport ==
  /\ pc = "get_or_create_export"
  /\ LET r == get_or_create_export(state, cur)
     IN  IF r.raised = ""
           THEN /\ loc' = [loc EXCEPT !.export_id = r.export_id]
                /\ window' = [cursor |-> get_bookmark(state, cur, replication_key),
                              export_id |-> get_bookmark(state, cur, "export_id"),
                              export_end |-> get_bookmark(state, cur, "export_end"),
                              record_count |-> loc.record_count,
                              drained |-> FALSE]
                /\ pc' = "wait_for_export"
                /\ UNCHANGED error
           ELSE /\ pc' = "failed"
                /\ error' = r.raised
                /\ UNCHANGED << loc, window >>
  /\ UNCHANGED << catalog, state, persisted, now, idx, starting_stream, lines, calls,
                  emitted, dispatched, run_state, runs >>

\* line 159, the export finished
WaitForExport ==
  /\ pc = "wait_for_export"
  /\ calls' = Append(calls, Call("wait_for_export", cur, loc.export_id))
  /\ pc' = "stream_export"
  /\ UNCHANGED << catalog, state, persisted, now, error, idx, starting_stream, loc, lines,
                  emitted, dispatched, run_state, window, runs >>

\* lines 159-162, the export failed
ExportFailed ==
  /\ pc = "wait_for_export"
  /\ calls' = Append(calls, Call("wait_for_export", cur, loc.export_id))
  /\ state' = update_activity_state(state, cur, Null, Null, Null)
  /\ persisted' = write_state(state')
  /\ pc' = "failed"
  /\ error' = "ExportFailed"
  /\ UNCHANGED << catalog, now, idx, starting_stream, loc, lines, emitted, dispatched,
                  run_state, window, runs >>

\* lines 165-166: the export's header line is read, its rows are left
StreamExport ==
  /\ pc = "stream_export"
  /\ calls' = Append(calls, Call("stream_export", cur, loc.export_id))
  /\ lines' \in RowSeqs(window.cursor, MaxLines)
  /\ loc' = [loc EXCEPT !.handled = 0]
  /\ pc' = "for_line"
  /\ UNCHANGED << catalog, state, persisted, now, error, idx, starting_stream, emitted,
                  dispatched, run_state, window, runs >>

\* lines 167-168
HandleActivityLine ==
  /\ pc = "for_line" /\ loc.handled < Len(lines)
  /\ LET value == lines[loc.handled + 1]
         n == handle_activity_line(state, cur, value)
     IN  /\ emitted' = IF n = 1 THEN emitted \cup {Rec(cur, value)} ELSE emitted
         /\ loc' = [loc EXCEPT !.record_count = @ + n, !.handled = @ + 1]
  /\ UNCHANGED << catalog, state, persisted, now, pc, error, idx, starting_stream, lines,
                  calls, dispatched, run_state, window, runs >>

\* lines 172-174 and the while test of line 153
PostDrain ==
  /\ pc = "for_line" /\ loc.handled = Len(lines)
  /\ LET start_date == get_bookmark(state, cur, "export_end")
     IN  /\ state' = update_activity_state(state, cur, start_date, Null, Null)
         /\ persisted' = write_state(state')
         /\ loc' = [loc EXCEPT !.start_date = start_date, !.start_pen = start_date]
         /\ pc' = ActivitiesLoop(start_date, loc.job_started)
  /\ window' = [window EXCEPT !.drained = TRUE]
  /\ UNCHANGED << catalog, now, error, idx, starting_stream, lines, calls, emitted,
                  dispatched, run_state, runs >>

\* -------------------------------------------------------- sync_programs()
\* lines 187-197
sync_programs ==
  /\ pc = "sync_programs"
  /\ loc' = [loc EXCEPT !.start_date = get_bookmark(state, "programs", replication_key),
                        !.end_date = now, !.offset = 0, !.record_count = 0]
  /\ pc' = "programs_request"
  /\ UNCHANGED << catalog, state, persisted, now, error, idx, starting_stream, lines, calls,
                  emitted, dispatched, run_state, window, runs >>

\* line 203 with an empty result page also taken as the end
programs_exhausted_by_count(warnings, rows) == warnings \/ rows = << >>

\* line 203: NO_ASSET_MSG in data["warnings"]
programs_exhausted(warnings, rows) == warnings

\* line 219 with the clock read again after the last page
programs_bookmark_late(end_date, utcnow) == utcnow

\* line 219: the bookmark written is the end_date of line 188
programs_bookmark(end_date, utcnow) == end_date

\* lines 203-204 and 219-221: leave the loop, bookmark, emit the State
ProgramsBreak(warnings, rows) ==
  /\ state' = write_bookmark(state, "programs", replication_key,
                             programs_bookmark(loc.end_date, now))
  /\ persisted' = write_state(state')
  /\ loc' = [loc EXCEPT !.warnings = warnings, !.result = Len(rows)]
  /\ pc' = "finish"
  /\ UNCHANGED emitted

\* lines 208-215: emit the accepted rows, raise the offset, loop
ProgramsContinue(warnings, rows) ==
  /\ loc.pages < MaxPages
  /\ emitted' = emitted \cup { Rec("programs", rows[i]) : i \in Accepted(rows, loc.start_date) }
  /\ loc' = [loc EXCEPT !.record_count = @ + Cardinality(Accepted(rows, loc.start_date)),
                        !.offset = @ + maxReturn,
                        !.pages = @ + 1,
                        !.warnings = warnings,
                        !.result = Len(rows)]
  /\ UNCHANGED << state, persisted, pc >>

\* lines 199-215: a page without the NO_ASSET_MSG warning
ProgramsPage ==
  /\ pc = "programs_request"
  /\ calls' = Append(calls, Call("request", "programs", loc.offset))
  /\ \E rows \in RowSeqs(loc.start_date, MaxRows) :
       IF programs_exhausted(FALSE, rows)
         THEN ProgramsBreak(FALSE, rows)
         ELSE ProgramsContinue(FALSE, rows)
  /\ UNCHANGED << catalog, now, error, idx, starting_stream, lines, dispatched, run_state,
                  window, runs >>

\* lines 199-204 and 219-221: the response carries NO_ASSET_MSG and no rows
ProgramsExhausted ==
  /\ pc = "programs_request"
  /\ calls' = Append(calls, Call("request", "programs", loc.offset))
  /\ IF programs_exhausted(TRUE, << >>)
       THEN ProgramsBreak(TRUE, << >>)
       ELSE ProgramsContinue(TRUE, << >>)
  /\ UNCHANGED << catalog, now, error, idx, starting_stream, lines, dispatched, run_state,
                  window, runs >>

\* ------------------------------------------------------- sync_paginated()
\* lines 235-237 left out
first_page_token_ignored(st, s) == Null

\* lines 235-237: the nextPageToken parameter of the first request
first_page_token(st, s) == get_bookmark(st, s, "next_page_token")

\* lines 262-264 without the write of line 263
store_page_token_dropped(st, s, token) == st

\* line 263: the response's token becomes the next_page_token bookmark
store_page_token(st, s, token) == write_bookmark(st, s, "next_page_token", token)

\* lines 248-255: the for loop over one page, acc = the locals it updates
RECURSIVE paginated_rows(_, _, _, _, _)
paginated_rows(rows, st, s, start_date, acc) ==
  IF rows = << >> THEN acc
  ELSE LET value == Head(rows)
           bookmark == get_bookmark(st, s, replication_key)
           acc1 == IF value >= start_date
                     THEN [record_count |-> acc.record_count + 1,
                           emitted |-> acc.emitted \cup {Rec(s, value)},
                           max_bookmark |-> IF bookmark > acc.max_bookmark
                                              THEN bookmark ELSE acc.max_bookmark]
                     ELSE acc
       IN  paginated_rows(Tail(rows), st, s, start_date, acc1)

\* lines 228-241
sync_paginated ==
  /\ pc = "sync_paginated"
  /\ LET start_date == get_bookmark(state, cur, replication_key)
     IN  loc' = [loc EXCEPT !.start_date = start_date,
                            !.nextPageToken = first_page_token(state, cur),
                            !.record_count = 0,
                            !.max_bookmark = start_date]
  /\ pc' = "paginated_request"
  /\ UNCHANGED << catalog, state, persisted, now, error, idx, starting_stream, lines, calls,
                  emitted, dispatched, run_state, window, runs >>

\* lines 243-271: one request, its rows, and either the token bookmark
\* (lines 262-264) or the end of the strategy (lines 268-271)
PaginatedRequest ==
  /\ pc = "paginated_request"
  /\ calls' = Append(calls, Call("request", cur, loc.nextPageToken))
  /\ \E rows \in RowSeqs(loc.start_date, MaxRows), token \in {Null} \cup Tokens :
       /\ loc.pages + 1 >= MaxPages => token = Null
       /\ LET acc == paginated_rows(rows, state, cur, loc.start_date,
                                    [record_count |-> loc.record_count,
                                     emitted |-> emitted,
                                     max_bookmark |-> loc.max_bookmark])
          IN  /\ emitted' = acc.emitted
              /\ IF token = Null
                   THEN /\ state' = write_bookmark(
                                      write_bookmark(state, cur, "next_page_token", Null),
                                      cur, replication_key, acc.max_bookmark)
                        /\ loc' = [loc EXCEPT !.record_count = acc.record_count,
                                              !.max_bookmark = acc.max_bookmark,
                                              !.pages = @ + 1]
                        /\ pc' = "finish"
                   ELSE /\ state' = store_page_token(state, cur, token)
                        /\ loc' = [loc EXCEPT !.record_count = acc.record_count,
                                              !.max_bookmark = acc.max_bookmark,
                                              !.nextPageToken = token,
                                              !.pages = @ + 1]
                        /\ pc' = "paginated_request"
  /\ persisted' = write_state(state')
  /\ UNCHANGED << catalog, now, error, idx, starting_stream, lines, dispatched, run_state,
                  window, runs >>

\* ------------------------------------------------------------ environment
Running == pc \notin {"done", "failed"}

\* the process is killed, or a collaborator call raises: nothing catches it
Interrupt ==
  /\ Running
  /\ pc' = "failed"
  /\ error' = "Interrupted"
  /\ UNCHANGED << catalog, state, persisted, now, idx, starting_stream, loc, lines, calls,
                  emitted, dispatched, run_state, window, runs >>

\* the tap is run again with the last State it emitted
Restart ==
  /\ ~Running
  /\ runs < MaxRuns
  /\ runs' = runs + 1
  /\ state' = persisted
  /\ run_state' = persisted
  /\ pc' = "start"
  /\ error' = ""
  /\ idx' = 1
  /\ starting_stream' = NoStream
  /\ loc' = NoLocals
  /\ lines' = << >>
  /\ calls' = << >>
  /\ emitted' = {}
  /\ dispatched' = << >>
  /\ window' = NoWindow
  /\ UNCHANGED << catalog, persisted, now >>

\* the clock is read at lines 150 and 188 only, the first steps of the
\* strategies: time passing elsewhere is time passing before the dispatch,
\* except while sync_programs pages, where it separates line 188 from line 219
Tick ==
  /\ pc \in {"start", "for", "programs_request"}
  /\ now < StartTime + MaxTicks
  /\ now' = now + 1
  /\ UNCHANGED << catalog, state, persisted, pc, error, idx, starting_stream, loc, lines,
                  calls, emitted, dispatched, run_state, window, runs >>

Next ==
  \/ sync \/ SkipUnselected \/ SkipAlreadySynced \/ StartStream \/ FinishStream \/ SyncReturn
  \/ sync_activity_types
  \/ sync_activities \/ GetOrCreateExport \/ WaitForExport \/ ExportFailed \/ StreamExport
  \/ HandleActivityLine \/ PostDrain
  \/ sync_programs \/ ProgramsPage \/ ProgramsExhausted
  \/ sync_paginated \/ PaginatedRequest
  \/ Interrupt \/ Restart \/ Tick

Spec == Init /\ [][Next]_vars

\* a running sync_activities takes its next step: the interpreter goes on
\* unless the process is killed, and the hypotheses on the export job and on
\* its rows make every call of lines 159, 165 and 167 return
ActivityStep ==
  \/ sync_activities \/ GetOrCreateExport \/ WaitForExport \/ ExportFailed
  \/ StreamExport \/ HandleActivityLine \/ PostDrain

FairSpec == Spec /\ WF_vars(ActivityStep)

TypeOK ==
  /\ pc \in {"start", "for", "finish", "done", "failed", "sync_activity_types",
             "sync_activities", "get_or_create_export", "wait_for_export", "stream_export",
             "for_line", "sync_programs", "programs_request", "sync_paginated",
             "paginated_request"}
  /\ persisted.currently_syncing \in {NoStream} \cup Streams

\* ================================================================ claims
CallsOf(s) == SelectSeq(calls, LAMBDA c : c.stream = s)
CreateCalls(s) == SelectSeq(calls, LAMBDA c : c.stream = s /\ c.op = "create_export")
WindowDays(cs) == [i \in 1..Len(cs) |-> cs[i].arg.endsAt - cs[i].arg.startsAt]
Pos(s) == CHOOSE i \in 1..Len(catalog) : catalog[i].stream = s
InStream(S) == idx <= Len(catalog) /\ cur \in S
Cursor(st, s) == get_bookmark(st, s, replication_key)

\* the selected streams of the catalog from position k on, in order
RECURSIVE SelectedFrom(_)
SelectedFrom(k) ==
  IF k > Len(catalog) THEN << >>
  ELSE IF catalog[k].selected THEN << catalog[k].stream >> \o SelectedFrom(k + 1)
  ELSE SelectedFrom(k + 1)

ResumeStream == run_state.currently_syncing
Resuming == ResumeStream # NoStream /\ InCatalog(catalog, ResumeStream)

\* C1: a run started with currently_syncing = S (a selected stream of the
\* catalog) makes no request, emits no record and changes no State for the
\* streams before S; S is the first stream handed to a strategy, and the
\* selected streams after S follow in catalog order.
C1_ResumeSkipsEarlierStreams ==
  Resuming =>
    /\ dispatched # << >> => dispatched[1] = ResumeStream
    /\ \A i \in 1..Len(calls) : Pos(calls[i].stream) >= Pos(ResumeStream)
    /\ \A r \in emitted : Pos(r.stream) >= Pos(ResumeStream)
    /\ dispatched = << >> => state = run_state /\ persisted = run_state
    /\ (pc = "for" /\ idx > Pos(ResumeStream)) => dispatched # << >>
    /\ pc = "done" => dispatched = SelectedFrom(Pos(ResumeStream))

C1_Witness ==
  /\ catalog[1].stream = "activity_types" /\ catalog[1].selected
  /\ ResumeStream = "campaigns"
  /\ pc = "done"
  /\ dispatched = << "campaigns", "lists" >>

\* C2: no step of any strategy, and no restart from the persisted State,
\* lowers a stream's replication cursor, in memory or in the emitted State.
C2_CursorNeverDecreases ==
  [][\A s \in Streams :
       /\ Cursor(persisted', s) >= Cursor(persisted, s)
       /\ Cursor(state', s) >= Cursor(state, s)]_vars

C2_Witness ==
  /\ runs = 2
  /\ Cursor(persisted, "activities_1") > Cursor(run_state, "activities_1")
  /\ Cursor(persisted, "programs") > Cursor(run_state, "programs")

\* C3: an invocation of sync_activities that starts 65 days behind the clock
\* with no export bookmarked, and in which no export fails, has issued exactly
\* three create_export calls, for windows of 30, 30 and 5 days, when it ends.
C3_ThreeExportWindows ==
  ( /\ InStream(ActivityStreams)
    /\ loc.job_started # Null
    /\ get_bookmark(run_state, cur, "export_id") = Null
    /\ Cursor(run_state, cur) = loc.job_started - 65
    /\ \/ pc = "finish"
       \/ pc = "failed" /\ error \notin {"Interrupted", "ExportFailed"} )
  => WindowDays(CreateCalls(cur)) = << MAX_EXPORT_DAYS, MAX_EXPORT_DAYS, 5 >>

\* C4: handling one line of an export emits a record only if the row's
\* replication key is >= the cursor bookmarked when the window started; a row
\* older than that cursor is neither emitted nor counted.
C4_EmissionFilter ==
  [][(pc = "for_line" /\ loc'.handled = loc.handled + 1) =>
       LET value == lines[loc.handled + 1]
       IN  /\ value < window.cursor =>
                emitted' = emitted /\ loc'.record_count = loc.record_count
           /\ \A r \in emitted' \ emitted : r.value >= window.cursor
           /\ loc'.record_count > loc.record_count => value >= window.cursor]_vars

C4_Witness ==
  /\ pc = "for_line" /\ loc.handled = Len(lines) /\ Len(lines) = 2
  /\ \E i, j \in 1..Len(lines) :
       /\ lines[i] = window.cursor - 1 /\ Rec(cur, lines[i]) \notin emitted
       /\ lines[j] = window.cursor /\ Rec(cur, lines[j]) \in emitted
  /\ loc.record_count = 1

\* C5: after wait_for_export raised ExportFailed the run is over, export_id
\* and export_end are null in the State and in its last emitted snapshot, the
\* cursor is the one the window started with, no row of the export was
\* emitted or counted, and the failed wait is the last call of the run.
C5_ExportFailedClearsAndAborts ==
  error = "ExportFailed" =>
    /\ pc = "failed"
    /\ get_bookmark(state, cur, "export_id") = Null
    /\ get_bookmark(state, cur, "export_end") = Null
    /\ persisted = state
    /\ Cursor(state, cur) = window.cursor
    /\ loc.record_count = window.record_count
    /\ calls[Len(calls)] = Call("wait_for_export", cur, window.export_id)
    /\ dispatched[Len(dispatched)] = cur

C5_Witness ==
  /\ error = "ExportFailed"
  /\ get_bookmark(run_state, cur, "export_id") # Null
  /\ get_bookmark(persisted, cur, "export_id") = Null

\* C6: when an export id is bookmarked at the start of sync_activities, the
\* first window waits on and streams exactly that export and is not the one
\* that takes the creation path; every wait is on the bookmarked export id and
\* no create_export call precedes it.
C6_ResumeReusesExport ==
  /\ \A s \in ActivityStreams :
       LET e == get_bookmark(run_state, s, "export_id")
           cs == CallsOf(s)
       IN  e # Null =>
             /\ Len(cs) >= 1 => cs[1] = Call("wait_for_export", s, e)
             /\ Len(cs) >= 2 => cs[2] = Call("stream_export", s, e)
             /\ (InStream({s}) /\ error = "NameError") => window.drained
  /\ pc = "wait_for_export" =>
       /\ loc.export_id # Null
       /\ loc.export_id = get_bookmark(state, cur, "export_id")
       /\ CreateCalls(cur) = << >>

C6_Witness ==
  /\ InStream(ActivityStreams)
  /\ get_bookmark(run_state, cur, "export_id") = MaxExportId
  /\ CallsOf(cur) = << Call("wait_for_export", cur, MaxExportId),
                       Call("stream_export", cur, MaxExportId) >>

\* C7: once a window's export is drained, the cursor equals the export_end
\* bookmarked for that window, export_id and export_end are null, that State
\* is the emitted one, and the loop is entered again exactly when that window
\* end is before the time sync_activities started; otherwise it returns.
C7_PostDrain ==
  (window.drained /\ pc \in {"get_or_create_export", "finish"}) =>
    /\ Cursor(state, cur) = window.export_end
    /\ get_bookmark(state, cur, "export_id") = Null
    /\ get_bookmark(state, cur, "export_end") = Null
    /\ persisted = state
    /\ pc = "get_or_create_export" <=> window.export_end < loc.job_started

C7_Witness ==
  /\ window.drained /\ pc = "finish"
  /\ Cursor(state, cur) = loc.job_started
  /\ Cursor(state, cur) > window.cursor

\* C8: with no export bookmarked, get_or_create_export calls create_export
\* for the window [cursor, min(cursor + 30 days, now)], bookmarks the job id
\* and the window end, emits that State and goes on to wait on the job.
C8_CreatesBoundedWindow ==
  [][( /\ pc = "get_or_create_export"
       /\ get_bookmark(state, cur, "export_id") = Null
       /\ pc' # pc
       /\ error' # "Interrupted" ) =>
       LET start_date == Cursor(state, cur)
           end_date == Min(start_date + MAX_EXPORT_DAYS, now)
       IN  /\ pc' = "wait_for_export"
           /\ Len(calls') = Len(calls) + 1
           /\ calls'[Len(calls')].op = "create_export"
           /\ calls'[Len(calls')].arg = [startsAt |-> start_date, endsAt |-> end_date]
           /\ get_bookmark(state', cur, "export_id") # Null
           /\ get_bookmark(state', cur, "export_end") = end_date
           /\ persisted' = state']_vars

\* C9: the first request sync_paginated makes in a run carries the
\* next_page_token the run's State had bookmarked for the stream (the one the
\* interrupted run persisted), and no token when none is bookmarked.
C9_FirstRequestCarriesToken ==
  \A s \in PaginatedStreams :
    LET cs == CallsOf(s)
    IN  Len(cs) >= 1 =>
          cs[1] = Call("request", s, get_bookmark(run_state, s, "next_page_token"))

C9_Witness ==
  /\ runs = 2
  /\ InStream(PaginatedStreams)
  /\ get_bookmark(run_state, cur, "next_page_token") = MaxToken
  /\ Len(CallsOf(cur)) >= 1
  /\ CallsOf(cur)[1].arg = MaxToken

\* C10: when sync_paginated has completed, the stream's cursor bookmark is
\* at least the replication key of every row the run emitted for the stream.
C10_FinalCursorIsMaxObserved ==
  (pc = "finish" /\ InStream(PaginatedStreams)) =>
    \A r \in emitted : r.stream = cur => Cursor(state, cur) >= r.value


\* C11: every request of sync_paginated carries the token that is bookmarked
\* in the emitted State at that moment; the loop goes on to another request
\* only with the token of the last response bookmarked and emitted, and when
\* sync_paginated has returned the emitted next_page_token is null.
C11_TokenLifecycle ==
  InStream(PaginatedStreams) =>
    /\ pc = "paginated_request" =>
         /\ get_bookmark(persisted, cur, "next_page_token") = loc.nextPageToken
         /\ get_bookmark(state, cur, "next_page_token") = loc.nextPageToken
         /\ loc.pages >= 1 => loc.nextPageToken # Null
         /\ Len(calls) = loc.pages
    /\ \A i \in 2..Len(calls) : calls[i].arg # Null
    /\ pc = "finish" =>
         /\ get_bookmark(persisted, cur, "next_page_token") = Null
         /\ get_bookmark(state, cur, "next_page_token") = Null
         /\ Len(calls) = loc.pages

C11_Witness ==
  /\ InStream(PaginatedStreams) /\ pc = "finish"
  /\ Len(calls) = 2
  /\ calls[1].arg = Null /\ calls[2].arg = MaxToken
  /\ get_bookmark(persisted, cur, "next_page_token") = Null


\* C12: the requests of sync_programs carry the offsets 0, 200, 400, ... in
\* order; the loop is left exactly when a response's warnings hold
\* NO_ASSET_MSG, whatever the number of rows of a page, and that response
\* answers the last request.
C12_SentinelStopsOffsetPaging ==
  (InStream({"programs"}) /\ pc \in {"programs_request", "finish"}) =>
    /\ \A i \in 1..Len(calls) : calls[i] = Call("request", "programs", (i - 1) * maxReturn)
    /\ pc = "finish" <=> loc.warnings
    /\ pc = "programs_request" => Len(calls) = loc.pages
    /\ pc = "finish" => Len(calls) = loc.pages + 1

C12_Witness ==
  /\ InStream({"programs"}) /\ pc = "programs_request"
  /\ loc.pages >= 1 /\ loc.result = 0 /\ ~loc.warnings
  /\ calls[Len(calls)].arg = (loc.pages - 1) * maxReturn


InPrograms == InStream({"programs"}) /\ loc.end_date # Null

\* C13: while sync_programs requests pages the programs cursor, in memory
\* and as emitted, is the one read at entry; after the sentinel response it
\* is the end_date taken at entry, not a later clock reading; every emitted
\* row is at least the entry cursor; a run that fails while paging leaves
\* the emitted cursor at its starting value.
C13_ProgramsBookmarkTiming ==
  InPrograms =>
    /\ loc.end_date <= now
    /\ \A r \in emitted : r.value >= loc.start_date
    /\ (pc = "programs_request" \/ (pc = "failed" /\ ~loc.warnings)) =>
         /\ Cursor(state, "programs") = loc.start_date
         /\ Cursor(persisted, "programs") = loc.start_date
         /\ Cursor(run_state, "programs") = loc.start_date
    /\ (pc = "finish" \/ (pc = "failed" /\ loc.warnings)) =>
         /\ Cursor(state, "programs") = loc.end_date
         /\ Cursor(persisted, "programs") = loc.end_date

C13_Witness ==
  /\ InPrograms /\ pc = "finish"
  /\ now > loc.end_date
  /\ Cursor(persisted, "programs") = loc.end_date
  /\ loc.end_date > loc.start_date
  /\ emitted # {}


\* C14: when sync() raises for a stream no strategy matches, the State in
\* memory and the last emitted State are what they were before that stream
\* was reached.
C14_UnrecognizedStreamLeavesState ==
  [][(error = "" /\ error' = "NotImplemented") =>
       (state' = state /\ persisted' = persisted)]_vars

StrategyPcs ==
  {"sync_activity_types", "sync_activities", "get_or_create_export", "wait_for_export",
   "stream_export", "for_line", "sync_programs", "programs_request", "sync_paginated",
   "paginated_request"}

\* C15: whenever a strategy is running the last emitted State names its
\* stream as currently_syncing, and it did so before each collaborator call;
\* a strategy that ends in an error leaves that State as the last emitted
\* one; when a strategy has returned, a State with currently_syncing null is
\* emitted before sync() looks at the next stream.
C15_MarkerProtocol ==
  [][/\ pc' \in StrategyPcs =>
          /\ persisted'.currently_syncing = catalog[idx'].stream
          /\ state'.currently_syncing = catalog[idx'].stream
     /\ (calls' # calls /\ calls' # << >>) =>
          persisted.currently_syncing = calls'[Len(calls')].stream
     /\ (pc \in StrategyPcs /\ pc' = "failed") => persisted'.currently_syncing = cur
     /\ (pc = "finish" /\ pc' = "for") =>
          /\ persisted'.currently_syncing = NoStream
          /\ state'.currently_syncing = NoStream
     /\ (pc = "for" /\ pc' \in StrategyPcs /\ dispatched # << >>) =>
          persisted.currently_syncing = NoStream]_vars

C15_Witness ==
  /\ pc = "failed" /\ error = "Interrupted"
  /\ run_state.currently_syncing = NoStream
  /\ Len(dispatched) = 2
  /\ calls # << >>
  /\ persisted.currently_syncing = dispatched[2]


\* C16: wherever a collaborator call can raise, and whenever a run has ended
\* in an error, the State in memory is the last emitted snapshot: no bookmark
\* change is held in memory only.
C16_PersistAfterMutation ==
  /\ pc \in StrategyPcs => state = persisted
  /\ pc = "failed" => state = persisted

C16_Witness ==
  /\ pc = "failed" /\ error = "Interrupted"
  /\ InStream(PaginatedStreams) /\ calls # << >>
  /\ get_bookmark(state, cur, "next_page_token") # get_bookmark(run_state, cur, "next_page_token")
  /\ get_bookmark(state, cur, "next_page_token") # Null
  /\ state = persisted


InWindow ==
  \/ pc \in {"wait_for_export", "stream_export", "for_line"}
  \/ pc = "failed" /\ error = "Interrupted" /\ window.export_id # Null /\ ~window.drained

\* C17: from the moment a window's export is taken up until its last row is
\* handled, also when the run is interrupted in between, the emitted State
\* holds that window's export_id, export_end and cursor, so the next run
\* takes up the same export; the cursor passes the window only when every
\* row was handled, and every handled row at or after the window's cursor was
\* emitted.
C17_AtLeastOnceDraining ==
  InStream(ActivityStreams) =>
    /\ InWindow =>
         /\ get_bookmark(persisted, cur, "export_id") = window.export_id
         /\ get_bookmark(persisted, cur, "export_end") = window.export_end
         /\ Cursor(persisted, cur) = window.cursor
    /\ window.export_id # Null =>
         /\ \A i \in 1..loc.handled :
              lines[i] >= window.cursor => Rec(cur, lines[i]) \in emitted
         /\ window.drained => loc.handled = Len(lines)
         /\ Cursor(persisted, cur) # window.cursor => window.drained

C17_Witness ==
  /\ runs = 2
  /\ InStream(ActivityStreams) /\ pc = "for_line"
  /\ window.export_id = get_bookmark(run_state, cur, "export_id")
  /\ window.export_id # Null
  /\ loc.handled = Len(lines) /\ Len(lines) = MaxLines
  /\ \E i \in 1..Len(lines) : lines[i] = window.cursor /\ Rec(cur, lines[i]) \in emitted


Paired(st, s) ==
  (get_bookmark(st, s, "export_id") = Null) <=> (get_bookmark(st, s, "export_end") = Null)

\* C18: a run that starts from a State whose export_id and export_end are
\* both null or both set for every activity stream only ever holds and emits
\* States in which they are both null or both set.
C18_ExportBookmarksPaired ==
  (\A s \in ActivityStreams : Paired(run_state, s)) =>
    \A s \in ActivityStreams : Paired(persisted, s) /\ Paired(state, s)

C18_Witness ==
  /\ InStream(ActivityStreams) /\ window.drained
  /\ get_bookmark(run_state, cur, "export_id") # Null
  /\ get_bookmark(run_state, cur, "export_end") # Null
  /\ get_bookmark(persisted, cur, "export_id") = Null
  /\ get_bookmark(persisted, cur, "export_end") = Null
  /\ Cursor(persisted, cur) > Cursor(run_state, cur)


StaleMarker ==
  /\ run_state.currently_syncing # NoStream
  /\ ~InCatalog(catalog, run_state.currently_syncing)

\* C19: in a run started from a State whose currently_syncing names a stream
\* that the catalog lacks or does not select, the loop only skips: nothing is
\* dispatched, requested or emitted, the State and the last emitted State stay
\* the ones the run started with, marker included, and no error is raised.
C19_StaleMarkerSyncsNothing ==
  StaleMarker =>
    /\ dispatched = << >> /\ calls = << >> /\ emitted = {}
    /\ state = run_state /\ persisted = run_state
    /\ pc \in {"start", "for", "done", "failed"}
    /\ error \in {"", "Interrupted"}
    /\ pc = "failed" <=> error = "Interrupted"

C19_Witness ==
  /\ StaleMarker
  /\ runs = 2 /\ pc = "done" /\ error = ""
  /\ \E i \in 1..Len(catalog) : catalog[i].selected
  /\ persisted.currently_syncing = run_state.currently_syncing


ActivityPcs ==
  {"sync_activities", "get_or_create_export", "wait_for_export", "stream_export", "for_line"}

InActivities == InStream(ActivityStreams) /\ pc \in ActivityPcs

\* C20: sync_activities, once entered, is left: by its return, with the
\* cursor no longer before the run's start time, or by an error. Each
\* completed drain moves the cursor to a window end beyond the previous
\* cursor, the loop body is entered only with the cursor before the run's
\* start time, and an invocation that finds the cursor at or after the run's
\* start time returns with no export call and no window taken up.
C20_ExportLoopTerminates ==
  /\ InActivities ~> ~InActivities
  /\ [][(InActivities /\ pc = "for_line" /\ pc' \in {"get_or_create_export", "finish"}) =>
          /\ Cursor(state', cur) = window.export_end
          /\ Cursor(state', cur) > Cursor(state, cur)
          /\ (pc' = "finish" <=> Cursor(state', cur) >= loc.job_started)]_vars
  /\ []((InActivities /\ pc # "sync_activities") => loc.start_pen < loc.job_started)
  /\ []((InStream(ActivityStreams) /\ pc = "finish") =>
          /\ Cursor(state, cur) >= loc.job_started
          /\ (Cursor(run_state, cur) >= loc.job_started =>
                /\ calls = << >> /\ window = NoWindow /\ emitted = {}
                /\ state.bookmarks[cur] = run_state.bookmarks[cur]))

C20_Witness ==
  /\ InStream(ActivityStreams) /\ pc = "finish"
  /\ Cursor(run_state, cur) < loc.job_started
  /\ window.drained /\ window.export_end > window.cursor
  /\ Len(calls) = 2
  /\ Cursor(state, cur) = window.export_end

====
